---- MODULE Spec2Model ----
(***************************************************************************)
(* Model of the two latency-statistics programs of the repository:         *)
(*   src/trstats.py   (traceroute batch: run/parse/aggregate/report)       *)
(*   src/pingstats.py (single ping run: run/parse/report)                  *)
(*                                                                         *)
(* Numbers.  A Python float is modelled as an exact rational               *)
(* [n |-> numerator, d |-> denominator] in lowest terms, counted in units  *)
(* of 0.0001 ms, so that 1.0014 ms is [n |-> 10014, d |-> 1].  The model   *)
(* therefore covers finite, non-negative values of a magnitude at which    *)
(* double arithmetic is exact far below the 0.001 ms rounding step.        *)
(*                                                                         *)
(* Text.  A text is a sequence of lines (str.splitlines); a line is a      *)
(* record [lead, parts]: lead says whether the raw line starts with        *)
(* whitespace, parts is str.split() of the line.  A token is a record      *)
(* [k, n, s] where k is the shape the code's tests distinguish:            *)
(*   "int"   integer literal n               int() = n, float() = n        *)
(*   "dec"   decimal literal, optional "ms"  int() raises, float() = n/1e4 *)
(*   "word"  anything float() rejects        (host name, "*", "ms")        *)
(*   "paren" starts with "(" and ends with ")"                             *)
(*   "hdr"   a word starting with "traceroute"                             *)
(***************************************************************************)
EXTENDS Integers, Sequences, FiniteSets, TLC

VARIABLES
    \* ---- trstats.py main ----
    args,           \* parsed command line: [test, target, num_runs]
    pc,             \* position of main
    run,            \* number of loop iterations already executed
    hops_list,      \* accumulation list: one hop sequence per parsed run
    final_stats,    \* result of aggregate_stats
    json_file,      \* None, or Some(content of the --output file)
    image_file,     \* "absent" or "written" (the --graph file)
    attempted,      \* history: run indices attempted so far, in order
    succeeded,      \* history: run indices whose text was obtained
    \* ---- parse_traceroute_output applied to one text ----
    traceroute_output,
    parse_result,
    \* ---- pingstats.py main ----
    ping_args,      \* [target]
    ping_inv,       \* history: what the ping invocation did
    ping_pc,
    ping_output,    \* what run_ping returned
    ping_stats,     \* what parse_ping_output returned
    ping_json,
    ping_image,
    ping_raised     \* an exception escaped main

trVars    == <<args, pc, run, hops_list, final_stats, json_file, image_file,
               attempted, succeeded>>
parseVars == <<traceroute_output, parse_result>>
pingVars  == <<ping_args, ping_inv, ping_pc, ping_output, ping_stats, ping_json,
               ping_image, ping_raised>>
vars      == <<trVars, parseVars, pingVars>>

\* Python's None / a file that does not exist is the empty sequence; a
\* value v that is present is the one-element sequence <<v>>.
None    == <<>>
Some(v) == <<v>>
Absent  == "absent"
Written == "written"

\* ------------------------------------------------------------------------
\* Bounds of the model
\* ------------------------------------------------------------------------
MaxRuns  == 3    \* largest --num_runs
MaxAggRuns == 2  \* runs handed to aggregate_stats on its own
MaxLines == 2    \* lines of a multi-line text
MaxPingLines == 2  \* lines of a ping output
MaxTok   == 7    \* tokens after the hop number on an exhaustively drawn line

\* ------------------------------------------------------------------------
\* Exact arithmetic standing for Python floats
\* ------------------------------------------------------------------------
RECURSIVE Gcd(_, _)
Gcd(a, b) == IF b = 0 THEN a ELSE Gcd(b, a % b)

Norm(n, d) == LET g == Gcd(n, d) IN [n |-> n \div g, d |-> d \div g]

Rat(n) == [n |-> n, d |-> 1]

RatAdd(a, b) == Norm(a.n * b.d + b.n * a.d, a.d * b.d)

RatDivInt(a, k) == Norm(a.n, a.d * k)

RatLt(a, b) == a.n * b.d < b.n * a.d

RatLeq(a, b) == a.n * b.d <= b.n * a.d

\* sum(xs), left to right, starting from 0
RECURSIVE PySum(_)
PySum(xs) == IF xs = <<>> THEN Rat(0)
             ELSE RatAdd(PySum(SubSeq(xs, 1, Len(xs) - 1)), xs[Len(xs)])

\* min(xs): the first smallest element
RECURSIVE PyMin(_)
PyMin(xs) == IF Len(xs) = 1 THEN xs[1]
             ELSE LET m == PyMin(SubSeq(xs, 1, Len(xs) - 1))
                  IN IF RatLt(xs[Len(xs)], m) THEN xs[Len(xs)] ELSE m

\* max(xs): the first largest element
RECURSIVE PyMax(_)
PyMax(xs) == IF Len(xs) = 1 THEN xs[1]
             ELSE LET m == PyMax(SubSeq(xs, 1, Len(xs) - 1))
                  IN IF RatLt(m, xs[Len(xs)]) THEN xs[Len(xs)] ELSE m

\* insertion of x into an ascending sequence, after its equals (stable)
RECURSIVE InsertSorted(_, _)
InsertSorted(x, s) == IF s = <<>> THEN <<x>>
                      ELSE IF RatLt(x, s[1]) THEN <<x>> \o s
                      ELSE <<s[1]>> \o InsertSorted(x, Tail(s))

\* sorted(xs)
RECURSIVE PySorted(_)
PySorted(xs) == IF xs = <<>> THEN <<>>
                ELSE InsertSorted(xs[Len(xs)], PySorted(SubSeq(xs, 1, Len(xs) - 1)))

\* statistics.median(xs), xs non-empty: middle of the sorted data, or the
\* mean of the two middle values
PyMedian(xs) == LET s == PySorted(xs)
                    n == Len(s)
                IN IF n % 2 = 1 THEN s[(n + 1) \div 2]
                   ELSE RatDivInt(RatAdd(s[n \div 2], s[n \div 2 + 1]), 2)

\* round(x, 3): nearest multiple of 0.001 ms (10 units), ties to even
PyRound3(x) == LET step == 10 * x.d
                   q    == x.n \div step
                   r    == x.n % step
               IN IF 2 * r < step THEN Rat(10 * q)
                  ELSE IF 2 * r > step THEN Rat(10 * (q + 1))
                  ELSE IF q % 2 = 0 THEN Rat(10 * q)
                  ELSE Rat(10 * (q + 1))

\* ------------------------------------------------------------------------
\* Tokens and lines
\* ------------------------------------------------------------------------
IntTok(n)   == [k |-> "int",   n |-> n, s |-> ""]
DecTok(n)   == [k |-> "dec",   n |-> n, s |-> ""]
WordTok(s)  == [k |-> "word",  n |-> 0, s |-> s]
ParenTok(s) == [k |-> "paren", n |-> 0, s |-> s]
HdrTok      == [k |-> "hdr",   n |-> 0, s |-> "traceroute"]

Line(lead, parts) == [lead |-> lead, parts |-> parts]

\* parts[i].startswith('(') and parts[i].endswith(')')
IsParen(tok) == tok.k = "paren"

\* float(parts[i].replace("ms", "")) succeeds
IsFloat(tok) == tok.k \in {"int", "dec"}

\* the value of that float, in units of 0.0001 ms
FloatOf(tok) == IF tok.k = "int" THEN Rat(tok.n * 10000) ELSE Rat(tok.n)

\* int(parts[0]) succeeds
IsInt(tok) == tok.k = "int"

\* line.startswith("traceroute") or line.strip() == ""
IsSkipped(line) ==
    \/ line.parts = <<>>
    \/ ~line.lead /\ line.parts[1].k = "hdr"

\* ------------------------------------------------------------------------
\* trstats.py: parse_traceroute_output
\* ------------------------------------------------------------------------
\* variant: the pair is appended without looking for it in hosts
AppendHostAlways(hosts, pair) == Append(hosts, pair)

\* hosts.append([hostname, ip_address]) unless the pair is already in hosts
AppendHost(hosts, pair) ==
    IF \E j \in 1..Len(hosts) : hosts[j] = pair THEN hosts
    ELSE Append(hosts, pair)

\* the while loop over parts; i is the 1-based cursor (Python's i + 1)
RECURSIVE ScanParts(_, _, _, _)
ScanParts(parts, i, hosts, latencies) ==
    IF i > Len(parts) THEN [hosts |-> hosts, latencies |-> latencies]
    ELSE IF IsParen(parts[i]) THEN ScanParts(parts, i + 1, hosts, latencies)
    ELSE IF IsFloat(parts[i]) THEN
        ScanParts(parts, i + 1, hosts, Append(latencies, FloatOf(parts[i])))
    ELSE IF i + 1 <= Len(parts) /\ IsParen(parts[i + 1]) THEN
        ScanParts(parts, i + 2,
                  AppendHost(hosts, <<parts[i].s, parts[i + 1].s>>), latencies)
    ELSE ScanParts(parts, i + 1, hosts, latencies)

\* variant: avg is the sum of the samples, not divided by their number
MakeHopSumAsAvg(hop_number, hosts, latencies) ==
    [ avg   |-> PySum(latencies),
      hop   |-> hop_number,
      hosts |-> hosts,
      max   |-> PyMax(latencies),
      med   |-> PyMedian(latencies),
      min   |-> PyMin(latencies) ]

\* the Hop record built from one line's scan
MakeHop(hop_number, hosts, latencies) ==
    [ avg   |-> RatDivInt(PySum(latencies), Len(latencies)),
      hop   |-> hop_number,
      hosts |-> hosts,
      max   |-> PyMax(latencies),
      med   |-> PyMedian(latencies),
      min   |-> PyMin(latencies) ]

\* variant: a line without samples gives a zero-filled record
EmitHopAlways(hops, hop_number, scan) ==
    IF scan.latencies # <<>>
    THEN Append(hops, MakeHop(hop_number, scan.hosts, scan.latencies))
    ELSE Append(hops, [ avg |-> Rat(0), hop |-> hop_number,
                        hosts |-> scan.hosts, max |-> Rat(0),
                        med |-> Rat(0), min |-> Rat(0) ])

\* hops.append(...) only if latencies is non-empty
EmitHop(hops, hop_number, scan) ==
    IF scan.latencies # <<>>
    THEN Append(hops, MakeHop(hop_number, scan.hosts, scan.latencies))
    ELSE hops

\* the for loop over the lines; int(parts[0]) raises ValueError, which
\* nothing in the function catches
RECURSIVE ParseLines(_, _, _)
ParseLines(text, i, hops) ==
    IF i > Len(text) THEN [raised |-> FALSE, hops |-> hops]
    ELSE IF IsSkipped(text[i]) THEN ParseLines(text, i + 1, hops)
    ELSE IF ~IsInt(text[i].parts[1]) THEN [raised |-> TRUE, hops |-> <<>>]
    ELSE ParseLines(text, i + 1,
                    EmitHop(hops, text[i].parts[1].n,
                            ScanParts(text[i].parts, 2, <<>>, <<>>)))

parse_traceroute_output(text) == ParseLines(text, 1, <<>>)

\* ------------------------------------------------------------------------
\* trstats.py: aggregate_stats
\* The dict `aggregated` is a sequence of entries in insertion order (the
\* order Python dicts keep); an entry's key is its hop field.
\* ------------------------------------------------------------------------
HasKey(aggregated, hop_number) ==
    \E j \in 1..Len(aggregated) : aggregated[j].hop = hop_number

KeyIndex(aggregated, hop_number) ==
    CHOOSE j \in 1..Len(aggregated) : aggregated[j].hop = hop_number

\* aggregated[hop_number] = {"hop": ..., "hosts": hop["hosts"], "min": [], ...}
NewEntry(hop) ==
    [ hop |-> hop.hop, hosts |-> hop.hosts,
      min |-> <<>>, max |-> <<>>, avg |-> <<>>, med |-> <<>> ]

\* variant: the avg list is fed from the med field
PoolValuesAvgFromMed(entry, hop) ==
    [ entry EXCEPT !.min = Append(@, hop.min),
                   !.max = Append(@, hop.max),
                   !.avg = Append(@, hop.med),
                   !.med = Append(@, hop.med) ]

\* the four appends of the inner loop body
PoolValues(entry, hop) ==
    [ entry EXCEPT !.min = Append(@, hop.min),
                   !.max = Append(@, hop.max),
                   !.avg = Append(@, hop.avg),
                   !.med = Append(@, hop.med) ]

\* variant: every record of a hop number overwrites the entry's hosts
AddHopLatestHosts(aggregated, hop) ==
    LET withKey == IF HasKey(aggregated, hop.hop) THEN aggregated
                   ELSE Append(aggregated, NewEntry(hop))
        j       == KeyIndex(withKey, hop.hop)
    IN [ withKey EXCEPT ![j] = [ PoolValues(@, hop) EXCEPT !.hosts = hop.hosts ] ]

\* the inner loop body for one hop record
AddHop(aggregated, hop) ==
    LET withKey == IF HasKey(aggregated, hop.hop) THEN aggregated
                   ELSE Append(aggregated, NewEntry(hop))
        j       == KeyIndex(withKey, hop.hop)
    IN [ withKey EXCEPT ![j] = PoolValues(@, hop) ]

\* for hop in hops
RECURSIVE AddRun(_, _)
AddRun(aggregated, hops) ==
    IF hops = <<>> THEN aggregated
    ELSE AddRun(AddHop(aggregated, hops[1]), Tail(hops))

\* for hops in hops_list
RECURSIVE Accumulate(_, _)
Accumulate(aggregated, runs) ==
    IF runs = <<>> THEN aggregated
    ELSE Accumulate(AddRun(aggregated, runs[1]), Tail(runs))

\* insertion of an integer key into an ascending key sequence
RECURSIVE InsertKey(_, _)
InsertKey(x, s) == IF s = <<>> THEN <<x>>
                   ELSE IF x < s[1] THEN <<x>> \o s
                   ELSE <<s[1]>> \o InsertKey(x, Tail(s))

RECURSIVE SortKeys(_)
SortKeys(keys) == IF keys = <<>> THEN <<>>
                  ELSE InsertKey(keys[Len(keys)],
                                 SortKeys(SubSeq(keys, 1, Len(keys) - 1)))

\* the keys of the dict as iteration yields them (insertion order)
DictKeys(aggregated) == [j \in 1..Len(aggregated) |-> aggregated[j].hop]

\* variant: the dict is iterated as it is, without sorted()
UnsortedKeys(aggregated) == DictKeys(aggregated)

\* sorted(aggregated)
SortedKeys(aggregated) == SortKeys(DictKeys(aggregated))

\* the record appended to final_stats for one entry
FinalRecord(entry) ==
    [ avg   |-> PyRound3(RatDivInt(PySum(entry.avg), Len(entry.avg))),
      hop   |-> entry.hop,
      hosts |-> entry.hosts,
      max   |-> PyMax(entry.max),
      med   |-> PyMedian(entry.med),
      min   |-> PyMin(entry.min) ]

aggregate_stats(runs) ==
    LET aggregated == Accumulate(<<>>, runs)
        keys       == SortedKeys(aggregated)
    IN [ j \in 1..Len(keys) |->
           FinalRecord(aggregated[KeyIndex(aggregated, keys[j])]) ]

\* ------------------------------------------------------------------------
\* Input texts
\* ------------------------------------------------------------------------
\* tokens that may follow the hop number on a short line
RestTokens == { DecTok(10014), IntTok(2), WordTok("a"), ParenTok("p") }

\* tokens in first position of a line that is neither blank nor a header
FirstTokens == { IntTok(1), IntTok(2), WordTok("b") }

ShortRests == {<<>>} \cup { <<t>> : t \in RestTokens }
                     \cup { <<t, u>> : t \in RestTokens, u \in RestTokens }

HeaderLine   == Line(FALSE, <<HdrTok, WordTok("to")>>)
IndentedHdr  == Line(TRUE,  <<HdrTok, WordTok("to")>>)
BlankLine    == Line(FALSE, <<>>)

ShortLines == { Line(TRUE, <<f>> \o r) : f \in FirstTokens, r \in ShortRests }
              \cup { HeaderLine, IndentedHdr, BlankLine }

\* texts of at most MaxLines short lines
MultiLineTexts == UNION { [1..k -> ShortLines] : k \in 0..MaxLines }

\* tokens of an exhaustively drawn hop line
DeepTokens == { DecTok(10014), WordTok("a"), WordTok("b"),
                ParenTok("p"), ParenTok("q") }

\* one-line texts: hop number 1 followed by at most MaxTok tokens
DeepTexts == { << Line(TRUE, <<IntTok(1)>> \o r) >> :
                 r \in UNION { [1..k -> DeepTokens] : k \in 0..MaxTok } }

ParseInputs == MultiLineTexts \cup DeepTexts

\* ------------------------------------------------------------------------
\* Values of the variables a specification does not use
\* ------------------------------------------------------------------------
TrIdle ==
    /\ args = [test |-> FALSE, target |-> FALSE, num_runs |-> 0]
    /\ pc = "idle" /\ run = 0 /\ hops_list = <<>> /\ final_stats = <<>>
    /\ json_file = None /\ image_file = Absent
    /\ attempted = <<>> /\ succeeded = <<>>

ParseIdle == traceroute_output = <<>> /\ parse_result = None

PingIdle ==
    /\ ping_args = [target |-> FALSE] /\ ping_pc = "idle"
    /\ ping_inv = [kind |-> "none", stdout |-> <<>>]
    /\ ping_output = None /\ ping_stats = None
    /\ ping_json = None /\ ping_image = Absent /\ ping_raised = FALSE

\* ------------------------------------------------------------------------
\* SpecParse: parse_traceroute_output applied to every input text
\* ------------------------------------------------------------------------
ParseInit ==
    /\ traceroute_output \in ParseInputs
    /\ parse_result = None
    /\ TrIdle /\ PingIdle

Parse ==
    /\ parse_result = None
    /\ parse_result' = Some(parse_traceroute_output(traceroute_output))
    /\ UNCHANGED <<traceroute_output, trVars, pingVars>>

ParseNext == Parse

SpecParse == ParseInit /\ [][ParseNext]_vars

\* the parser returned (it did not raise)
Parsed == parse_result # None /\ ~parse_result[1].raised

ParsedHops == parse_result[1].hops

\* the latency samples of a line, read off the line itself: the values of
\* the float tokens after the first token, in order
IsFloatTok(tok) == tok.k \in {"int", "dec"}

SampleTokens(line) == SelectSeq(Tail(line.parts), IsFloatTok)

SampleSeq(line) ==
    LET t == SampleTokens(line)
    IN [ j \in 1..Len(t) |->
           IF t[j].k = "int" THEN [n |-> t[j].n * 10000, d |-> 1]
           ELSE [n |-> t[j].n, d |-> 1] ]

IsDataLine(line) == line.parts # <<>> /\ (line.lead \/ line.parts[1].k # "hdr")

YieldsSample(line) == IsDataLine(line) /\ SampleTokens(line) # <<>>

YieldingLines(text) == SelectSeq(text, YieldsSample)

\* C6: when the parser returns, its records are exactly the data lines that
\* yielded at least one latency sample, in line order (a line with no
\* sample gives no record), and each record's hop number and min/med/avg/max
\* are those of its line's non-empty sample list.
C6_RecordIffSample ==
    Parsed =>
      LET lines == YieldingLines(traceroute_output)
          hops  == ParsedHops
      IN /\ Len(hops) = Len(lines)
         /\ \A j \in 1..Len(hops) :
              LET xs == SampleSeq(lines[j])
              IN /\ xs # <<>>
                 /\ hops[j].hop = lines[j].parts[1].n
                 /\ \E i \in 1..Len(xs) : hops[j].min = xs[i]
                 /\ \A i \in 1..Len(xs) : RatLeq(hops[j].min, xs[i])
                 /\ \E i \in 1..Len(xs) : hops[j].max = xs[i]
                 /\ \A i \in 1..Len(xs) : RatLeq(xs[i], hops[j].max)
                 /\ hops[j].avg = RatDivInt(PySum(xs), Len(xs))
                 /\ hops[j].med = PyMedian(xs)

\* a returned parse of a text with a sample-less data line before a line
\* with two different samples
C6_Witness ==
    /\ Parsed
    /\ Len(traceroute_output) = 2
    /\ IsDataLine(traceroute_output[1])
    /\ ~YieldsSample(traceroute_output[1])
    /\ YieldsSample(traceroute_output[2])
    /\ Len(ParsedHops) = 1
    /\ ParsedHops[1].min # ParsedHops[1].max

\* the positions of a line's host names that are followed by an address
PairPositions(parts) ==
    { i \in 2..(Len(parts) - 1) :
        /\ parts[i].k \notin {"int", "dec", "paren"}
        /\ parts[i + 1].k = "paren" }

PairAt(parts, i) == <<parts[i].s, parts[i + 1].s>>

FirstPosition(parts, pair) ==
    CHOOSE i \in PairPositions(parts) :
        /\ PairAt(parts, i) = pair
        /\ \A m \in PairPositions(parts) : PairAt(parts, m) = pair => i <= m

\* C9: the hosts list of every emitted Hop holds exactly the [hostname,
\* address] pairs of its line (a non-numeric, non-parenthesized token
\* directly followed by a parenthesized one), each once, in the order of
\* their first occurrence.
C9_HostsArePairsInOrder ==
    Parsed =>
      LET lines == YieldingLines(traceroute_output)
          hops  == ParsedHops
      IN /\ Len(hops) = Len(lines)
         /\ \A j \in 1..Len(hops) :
              LET parts == lines[j].parts
                  hosts == hops[j].hosts
              IN /\ { hosts[a] : a \in 1..Len(hosts) }
                      = { PairAt(parts, i) : i \in PairPositions(parts) }
                 /\ \A a, b \in 1..Len(hosts) :
                      a < b => /\ hosts[a] # hosts[b]
                               /\ FirstPosition(parts, hosts[a])
                                    < FirstPosition(parts, hosts[b])

\* an emitted Hop with two hosts whose line holds three host/address pairs,
\* one of them a repeat
C9_Witness ==
    /\ Parsed
    /\ Len(ParsedHops) = 1
    /\ Len(traceroute_output) = 1
    /\ LET parts == traceroute_output[1].parts
       IN /\ Len(ParsedHops[1].hosts) = 2
          /\ Cardinality(PairPositions(parts)) = 3

\* ------------------------------------------------------------------------
\* SpecAgg: aggregate_stats applied to arbitrary per-run hop sequences
\* ------------------------------------------------------------------------
\* two different summaries with different host lists
HopVariants ==
    { [ hosts |-> << <<"a", "p">> >>,
        min |-> Rat(10000), med |-> Rat(20000),
        avg |-> Rat(30014), max |-> Rat(40000) ],
      [ hosts |-> << <<"b", "q">>, <<"a", "p">> >>,
        min |-> Rat(20000), med |-> Rat(50000),
        avg |-> [n |-> 60029, d |-> 2], max |-> Rat(90000) ] }

HopNumbers == {1, 2, 3}

HopRecs ==
    { [ avg |-> v.avg, hop |-> h, hosts |-> v.hosts,
        max |-> v.max, med |-> v.med, min |-> v.min ] :
      h \in HopNumbers, v \in HopVariants }

\* a run reports at most two hops, in any order, possibly the same number
AggRuns == {<<>>} \cup { <<r>> : r \in HopRecs }
                   \cup { <<r, t>> : r \in HopRecs, t \in HopRecs }

AggInputs == UNION { [1..k -> AggRuns] : k \in 0..MaxAggRuns }

AggInit ==
    /\ args = [test |-> FALSE, target |-> FALSE, num_runs |-> 0]
    /\ pc = "agg_input" /\ run = 0
    /\ hops_list \in AggInputs
    /\ final_stats = <<>>
    /\ json_file = None /\ image_file = Absent
    /\ attempted = <<>> /\ succeeded = <<>>
    /\ ParseIdle /\ PingIdle

AggApply ==
    /\ pc = "agg_input"
    /\ final_stats' = aggregate_stats(hops_list)
    /\ pc' = "agg_done"
    /\ UNCHANGED <<args, run, hops_list, json_file, image_file, attempted,
                   succeeded, parseVars, pingVars>>

AggNext == AggApply

SpecAgg == AggInit /\ [][AggNext]_vars

\* all Hop records of the input, runs in run order, hops in their run's order
RECURSIVE Flat(_)
Flat(runs) == IF runs = <<>> THEN <<>> ELSE runs[1] \o Flat(Tail(runs))

RecordsOf(runs, h) == SelectSeq(Flat(runs), LAMBDA r : r.hop = h)

Field(recs, f) == [ j \in 1..Len(recs) |-> recs[j][f] ]

\* C3: the aggregator's records are in strictly ascending hop-number order
\* and their hop numbers are exactly the hop numbers occurring in the input.
C3_SortedOnePerHop ==
    pc = "agg_done" =>
      /\ \A a, b \in 1..Len(final_stats) :
           a < b => final_stats[a].hop < final_stats[b].hop
      /\ { final_stats[a].hop : a \in 1..Len(final_stats) }
           = { Flat(hops_list)[j].hop : j \in 1..Len(Flat(hops_list)) }

\* an aggregation of two runs in which a larger hop number arrives before a
\* smaller one and a hop number is repeated
C3_Witness ==
    /\ pc = "agg_done"
    /\ Len(hops_list) = 2
    /\ Len(final_stats) = 2
    /\ Len(Flat(hops_list)) = 4
    /\ Flat(hops_list)[1].hop > Flat(hops_list)[2].hop

\* C4: each output record is computed from exactly the input records with
\* its hop number: min is the least of their min values, max the greatest of
\* their max values, med the median of their med values and avg the mean of
\* their avg values rounded to a multiple of 0.001 (at most 0.0005 away).
C4_PooledPerHop ==
    pc = "agg_done" =>
      \A a \in 1..Len(final_stats) :
        LET out  == final_stats[a]
            recs == RecordsOf(hops_list, out.hop)
            mean == RatDivInt(PySum(Field(recs, "avg")), Len(recs))
            diff == out.avg.n * mean.d - mean.n
        IN /\ recs # <<>>
           /\ \E j \in 1..Len(recs) : out.min = recs[j].min
           /\ \A j \in 1..Len(recs) : RatLeq(out.min, recs[j].min)
           /\ \E j \in 1..Len(recs) : out.max = recs[j].max
           /\ \A j \in 1..Len(recs) : RatLeq(recs[j].max, out.max)
           /\ out.med = PyMedian(Field(recs, "med"))
           /\ out.avg.d = 1 /\ out.avg.n % 10 = 0
           /\ 2 * diff <= 10 * mean.d /\ -2 * diff <= 10 * mean.d

\* an aggregation in which one hop number is reported by both runs with
\* different summaries and another by one run only
C4_Witness ==
    /\ pc = "agg_done"
    /\ Len(hops_list) = 2
    /\ \E a, b \in 1..Len(final_stats) :
         /\ Len(RecordsOf(hops_list, final_stats[a].hop)) = 1
         /\ LET recs == RecordsOf(hops_list, final_stats[b].hop)
            IN Len(recs) = 3 /\ recs[1] # recs[2]

\* C5: the hosts of each output record are the host list of the first input
\* record with its hop number, in run order.
C5_HostsFromFirstRun ==
    pc = "agg_done" =>
      \A a \in 1..Len(final_stats) :
        LET recs == RecordsOf(hops_list, final_stats[a].hop)
        IN recs # <<>> /\ final_stats[a].hosts = recs[1].hosts

\* a hop number reported by two runs with different host lists
C5_Witness ==
    /\ pc = "agg_done"
    /\ Len(hops_list) = 2
    /\ \E i \in 1..Len(hops_list[1]), j \in 1..Len(hops_list[2]) :
         /\ hops_list[1][i].hop = hops_list[2][j].hop
         /\ hops_list[1][i].hosts # hops_list[2][j].hosts

\* ------------------------------------------------------------------------
\* Spec: trstats.py main, one loop iteration per step
\* ------------------------------------------------------------------------
\* lines of the texts a run can yield (live output or fixture content)
HopLineA  == Line(TRUE, <<IntTok(1), WordTok("a"), ParenTok("p"),
                          DecTok(10014), WordTok("ms"),
                          DecTok(10020), WordTok("ms")>>)
HopLineB  == Line(TRUE, <<IntTok(1), WordTok("a"), ParenTok("p"),
                          DecTok(10010), WordTok("ms")>>)
\* a hop of which one probe only was answered
HopLineD  == Line(TRUE, <<IntTok(3), WordTok("*"), WordTok("c"), ParenTok("r"),
                          DecTok(10014), WordTok("ms"), WordTok("*")>>)
StarLine  == Line(TRUE, <<IntTok(2), WordTok("*"), WordTok("*"), WordTok("*")>>)
\* a second host of the previous hop, printed on a line of its own
ContLine  == Line(TRUE, <<WordTok("b"), ParenTok("q"),
                          DecTok(30000), WordTok("ms")>>)

RunLines == { HopLineA, HopLineB, HopLineD, StarLine, ContLine }

\* a header followed by at most two lines
RunTexts == { <<HeaderLine>> \o t :
                t \in {<<>>} \cup { <<l>> : l \in RunLines }
                             \cup { <<l, m>> : l \in RunLines, m \in RunLines } }

\* what one traceroute invocation can do
Invocations ==
    { [kind |-> "exception", stdout |-> <<>>],
      [kind |-> "nonzero",   stdout |-> <<>>],
      [kind |-> "nonzero",   stdout |-> <<HeaderLine, HopLineA>>] }
    \cup { [kind |-> "exit0", stdout |-> t] : t \in RunTexts \cup {<<>>} }

\* run_traceroute: stdout on exit status 0, None otherwise
run_traceroute(inv) ==
    IF inv.kind = "exit0" THEN Some(inv.stdout) ELSE None

\* `if traceroute_output:` -- neither None nor the empty string
Truthy(output) == output # None /\ output[1] # <<>>

Init ==
    /\ args \in [test : BOOLEAN, target : BOOLEAN, num_runs : 0..MaxRuns]
    /\ pc = "main" /\ run = 0
    /\ hops_list = <<>> /\ final_stats = <<>>
    /\ json_file = None /\ image_file = Absent
    /\ attempted = <<>> /\ succeeded = <<>>
    /\ ParseIdle /\ PingIdle

\* not args.test and not args.target: print and return
MissingTarget ==
    /\ pc = "main" /\ ~args.test /\ ~args.target
    /\ pc' = "returned"
    /\ UNCHANGED <<args, run, hops_list, final_stats, json_file, image_file,
                   attempted, succeeded, parseVars, pingVars>>

\* the body of both loops once the run's text is there: parse and append;
\* a ValueError of the parser leaves main
ParseAndAppend(text) ==
    LET r == parse_traceroute_output(text)
    IN IF r.raised
       THEN pc' = "aborted" /\ UNCHANGED hops_list
       ELSE pc' = pc /\ hops_list' = Append(hops_list, r.hops)

\* one iteration of the fixture loop, file tr_run-<run + 1>.out missing
FixtureMissing ==
    /\ pc = "main" /\ args.test /\ run < args.num_runs
    /\ run' = run + 1
    /\ attempted' = Append(attempted, run + 1)
    /\ UNCHANGED <<args, pc, hops_list, final_stats, json_file, image_file,
                   succeeded, parseVars, pingVars>>

\* one iteration of the fixture loop, file tr_run-<run + 1>.out present
FixtureRead ==
    /\ pc = "main" /\ args.test /\ run < args.num_runs
    /\ \E text \in RunTexts \cup {<<>>} :
         ParseAndAppend(text)
    /\ run' = run + 1
    /\ attempted' = Append(attempted, run + 1)
    /\ succeeded' = Append(succeeded, run + 1)
    /\ UNCHANGED <<args, final_stats, json_file, image_file,
                   parseVars, pingVars>>

\* one iteration of the live loop
LiveRun ==
    /\ pc = "main" /\ ~args.test /\ args.target /\ run < args.num_runs
    /\ \E inv \in Invocations :
         LET traceroute_output_ == run_traceroute(inv)
         IN IF Truthy(traceroute_output_)
            THEN /\ ParseAndAppend(traceroute_output_[1])
                 /\ succeeded' = Append(succeeded, run + 1)
            ELSE UNCHANGED <<pc, hops_list, succeeded>>
    /\ run' = run + 1
    /\ attempted' = Append(attempted, run + 1)
    /\ UNCHANGED <<args, final_stats, json_file, image_file,
                   parseVars, pingVars>>

\* final_stats = aggregate_stats(hops_list), after the loop
Aggregate ==
    /\ pc = "main" /\ (args.test \/ args.target) /\ run >= args.num_runs
    /\ final_stats' = aggregate_stats(hops_list)
    /\ pc' = "save"
    /\ UNCHANGED <<args, run, hops_list, json_file, image_file, attempted,
                   succeeded, parseVars, pingVars>>

\* save_to_json(final_stats, args.output)
SaveToJson ==
    /\ pc = "save"
    /\ json_file' = Some(final_stats)
    /\ pc' = "plot"
    /\ UNCHANGED <<args, run, hops_list, final_stats, image_file, attempted,
                   succeeded, parseVars, pingVars>>

\* generate_boxplot(final_stats, args.graph)
GenerateBoxplot ==
    /\ pc = "plot"
    /\ image_file' = Written
    /\ pc' = "done"
    /\ UNCHANGED <<args, run, hops_list, final_stats, json_file, attempted,
                   succeeded, parseVars, pingVars>>

\* generate_boxplot with no hop at all: the plotting library is handed no
\* data and empty labels, which a build of it may reject with an exception
GenerateBoxplotRejected ==
    /\ pc = "plot" /\ final_stats = <<>>
    /\ pc' = "plot_raised"
    /\ UNCHANGED <<args, run, hops_list, final_stats, json_file, image_file,
                   attempted, succeeded, parseVars, pingVars>>

Next ==
    \/ MissingTarget
    \/ FixtureMissing
    \/ FixtureRead
    \/ LiveRun
    \/ Aggregate
    \/ SaveToJson
    \/ GenerateBoxplot
    \/ GenerateBoxplotRejected

Spec == Init /\ [][Next]_vars

\* main is past the loop and has aggregated
Aggregated == pc \in {"save", "plot", "done", "plot_raised"}

\* main is neither in the loop nor returned for want of a target
LeftLoop == pc \in {"save", "plot", "done", "plot_raised", "aborted"}

\* C1: when the aggregated hop sequence is empty, main writes neither the
\* JSON file nor the image file.
C1_NoFilesWithoutData ==
    (Aggregated /\ final_stats = <<>>) =>
        json_file = None /\ image_file = Absent

\* C7: the runs 1..num_runs are attempted in ascending order, none stops the
\* later ones, and the accumulation list ends with one hop sequence per run
\* that yielded a text.
C7_EveryRunAttempted ==
    /\ attempted = [j \in 1..run |-> j]
    /\ LeftLoop => /\ run >= args.num_runs
                   /\ Len(hops_list) = Len(succeeded)

\* C8: no input text makes the parser raise; the batch always goes on to
\* aggregation and reporting.
C8_ParserNeverAborts == pc # "aborted"

ThreeDecimals(x) == x.d = 1 /\ x.n % 10 = 0

\* C10 as stated: every record of the report has min <= med <= max and
\* min <= avg <= max, avg being the rounded value.
C10_Original ==
    Aggregated =>
      \A a \in 1..Len(final_stats) :
        LET r == final_stats[a]
        IN /\ RatLeq(r.min, r.med) /\ RatLeq(r.med, r.max)
           /\ RatLeq(r.min, r.avg) /\ RatLeq(r.avg, r.max)

\* C10 amended: every record of the report has min <= med <= max and its
\* rounded avg is within 0.0005 of [min, max]; it is inside [min, max]
\* whenever min and max have at most three decimal places.
C10_RoundedAvgWithinRange ==
    Aggregated =>
      \A a \in 1..Len(final_stats) :
        LET r == final_stats[a]
        IN /\ RatLeq(r.min, r.med) /\ RatLeq(r.med, r.max)
           /\ RatLeq(r.min, RatAdd(r.avg, Rat(5)))
           /\ RatLeq(r.avg, RatAdd(r.max, Rat(5)))
           /\ (ThreeDecimals(r.min) /\ ThreeDecimals(r.max)) =>
                 RatLeq(r.min, r.avg) /\ RatLeq(r.avg, r.max)

\* a finished report with a record pooled from two runs whose min and max
\* differ and have three decimals, and a record whose min has four
C10_Witness ==
    /\ pc = "done"
    /\ Len(hops_list) >= 2
    /\ \E a \in 1..Len(final_stats) :
         /\ ThreeDecimals(final_stats[a].min)
         /\ ThreeDecimals(final_stats[a].max)
         /\ final_stats[a].min # final_stats[a].max
         /\ \E i \in 1..Len(hops_list[1]) :
              /\ hops_list[1][i].hop = final_stats[a].hop
              /\ ~ThreeDecimals(hops_list[1][i].min)

\* ------------------------------------------------------------------------
\* pingstats.py
\* A token of a ping line is [k, n]:
\*   "time"    "time=<float>", n its value in units of 0.0001 ms
\*   "badtime" starts with "time=" but float() rejects the rest
\*   "midtime" contains "time=" but does not start with it
\*   "word"    anything else
\* ------------------------------------------------------------------------
PingTokens == { [k |-> "time", n |-> 10000], [k |-> "time", n |-> 20014],
                [k |-> "badtime", n |-> 0], [k |-> "midtime", n |-> 0],
                [k |-> "word", n |-> 0] }

\* split() of a ping line: at most two tokens
PingLines == {<<>>} \cup { <<t>> : t \in PingTokens }
                     \cup { <<t, u>> : t \in PingTokens, u \in PingTokens }

PingTexts == UNION { [1..k -> PingLines] : k \in 0..MaxPingLines }

PingInvocations ==
    { [kind |-> "exception", stdout |-> <<>>] }
    \cup { [kind |-> k, stdout |-> t] :
             k \in {"exit0", "nonzero"}, t \in PingTexts }

\* variant: stdout is returned whatever the exit status
run_ping_any_status(inv) ==
    IF inv.kind # "exception" THEN Some(inv.stdout) ELSE None

\* run_ping: stdout on exit status 0, None otherwise
run_ping(inv) == IF inv.kind = "exit0" THEN Some(inv.stdout) ELSE None

\* "time=" in line
HasTimeEq(parts) ==
    \E j \in 1..Len(parts) : parts[j].k \in {"time", "badtime", "midtime"}

\* part.startswith("time=")
StartsWithTimeEq(part) == part.k \in {"time", "badtime"}

\* the try block: append float(part.split("=")[1]), or continue on ValueError
TryAppendLatency(acc, part) ==
    IF part.k = "time"
    THEN [acc EXCEPT !.latencies = Append(@, Rat(part.n))]
    ELSE acc

\* for part in parts
RECURSIVE PingScanParts(_, _, _)
PingScanParts(parts, j, acc) ==
    IF j > Len(parts) \/ acc.raised THEN acc
    ELSE PingScanParts(parts, j + 1,
                       IF StartsWithTimeEq(parts[j])
                       THEN TryAppendLatency(acc, parts[j]) ELSE acc)

\* for line in ping_output.splitlines()
RECURSIVE PingScanLines(_, _, _)
PingScanLines(text, i, acc) ==
    IF i > Len(text) \/ acc.raised THEN acc
    ELSE PingScanLines(text, i + 1,
                       IF HasTimeEq(text[i])
                       THEN PingScanParts(text[i], 1, acc) ELSE acc)

\* the stats dict, or None when no latency was parsed
PingSummary(latencies) ==
    IF latencies # <<>>
    THEN Some([ avg |-> RatDivInt(PySum(latencies), Len(latencies)),
                max |-> PyMax(latencies),
                med |-> PyMedian(latencies),
                min |-> PyMin(latencies) ])
    ELSE None

parse_ping_output(text) ==
    LET acc == PingScanLines(text, 1, [raised |-> FALSE, latencies |-> <<>>])
    IN IF acc.raised THEN [raised |-> TRUE, stats |-> None]
       ELSE [raised |-> FALSE, stats |-> PingSummary(acc.latencies)]

PingInit ==
    /\ ping_args \in [target : BOOLEAN]
    /\ ping_inv = [kind |-> "none", stdout |-> <<>>]
    /\ ping_pc = "main"
    /\ ping_output = None /\ ping_stats = None
    /\ ping_json = None /\ ping_image = Absent /\ ping_raised = FALSE
    /\ TrIdle /\ ParseIdle

\* not args.target: print and return
PingMissingTarget ==
    /\ ping_pc = "main" /\ ~ping_args.target
    /\ ping_pc' = "returned"
    /\ UNCHANGED <<ping_args, ping_inv, ping_output, ping_stats, ping_json,
                   ping_image, ping_raised, trVars, parseVars>>

\* ping_output = run_ping(...)
PingRun ==
    /\ ping_pc = "main" /\ ping_args.target
    /\ \E inv \in PingInvocations :
         /\ ping_inv' = inv
         /\ ping_output' = run_ping(inv)
    /\ ping_pc' = "ran"
    /\ UNCHANGED <<ping_args, ping_stats, ping_json, ping_image, ping_raised,
                   trVars, parseVars>>

\* `if ping_output:` false: main ends
PingNoOutput ==
    /\ ping_pc = "ran" /\ ~Truthy(ping_output)
    /\ ping_pc' = "done"
    /\ UNCHANGED <<ping_args, ping_inv, ping_output, ping_stats, ping_json,
                   ping_image, ping_raised, trVars, parseVars>>

\* stats = parse_ping_output(ping_output)
PingParse ==
    /\ ping_pc = "ran" /\ Truthy(ping_output)
    /\ LET r == parse_ping_output(ping_output[1])
       IN IF r.raised
          THEN ping_raised' = TRUE /\ ping_pc' = "aborted"
               /\ UNCHANGED ping_stats
          ELSE ping_raised' = FALSE /\ ping_pc' = "parsed"
               /\ ping_stats' = r.stats
    /\ UNCHANGED <<ping_args, ping_inv, ping_output, ping_json, ping_image,
                   trVars, parseVars>>

\* `if stats:` false: main ends
PingNoStats ==
    /\ ping_pc = "parsed" /\ ping_stats = None
    /\ ping_pc' = "done"
    /\ UNCHANGED <<ping_args, ping_inv, ping_output, ping_stats, ping_json,
                   ping_image, ping_raised, trVars, parseVars>>

\* save_to_json(stats, args.output)
PingSave ==
    /\ ping_pc = "parsed" /\ ping_stats # None
    /\ ping_json' = ping_stats
    /\ ping_pc' = "plot"
    /\ UNCHANGED <<ping_args, ping_inv, ping_output, ping_stats, ping_image,
                   ping_raised, trVars, parseVars>>

\* generate_boxplot(stats, args.graph)
PingPlot ==
    /\ ping_pc = "plot"
    /\ ping_image' = Written
    /\ ping_pc' = "done"
    /\ UNCHANGED <<ping_args, ping_inv, ping_output, ping_stats, ping_json,
                   ping_raised, trVars, parseVars>>

PingNext ==
    \/ PingMissingTarget
    \/ PingRun
    \/ PingNoOutput
    \/ PingParse
    \/ PingNoStats
    \/ PingSave
    \/ PingPlot

SpecPing == PingInit /\ [][PingNext]_vars

\* the invocation returned exit status 0 with output holding a well-formed
\* "time=<number>" token
PingYieldedSample ==
    /\ ping_args.target
    /\ ping_inv.kind = "exit0"
    /\ ping_inv.stdout # <<>>
    /\ \E i \in 1..Len(ping_inv.stdout) :
         \E j \in 1..Len(ping_inv.stdout[i]) : ping_inv.stdout[i][j].k = "time"

\* C2: the ping program writes the JSON file or the image file only if the
\* target was given, ping exited with status 0 and output, and a latency
\* sample was parsed; otherwise it ends with neither file written, and no
\* exception escapes main.
C2_FilesOnlyWithSample ==
    /\ (ping_json # None \/ ping_image = Written) => PingYieldedSample
    /\ ~ping_raised /\ ping_pc # "aborted"

\* a run whose output has only a malformed time token, ended without files
C2_Witness ==
    /\ ping_pc = "done"
    /\ ping_inv.kind = "exit0"
    /\ ping_inv.stdout = << << [k |-> "badtime", n |-> 0] >> >>
    /\ ping_json = None /\ ping_image = Absent

====
